---- MODULE Spec2Model ----
(***************************************************************************)
(* Telemetry relay and replay server (src/server/server.js, lines 1-130):  *)
(* the live player table with read-time eviction, the start/stop recording *)
(* state machine and the in-memory replay catalog.                         *)
(*                                                                         *)
(* JavaScript objects are TLA+ records (functions from field names), the   *)
(* Map `players` is a function whose domain is the set of keys, arrays are *)
(* sequences.  The array returned by GET /data is kept as the set of its   *)
(* elements (a Map iteration never yields a key twice).                    *)
(***************************************************************************)
EXTENDS Integers, Sequences, FiniteSets, TLC

\* ---------------------------------------------------------------- bounds
StaleMs == 5000

TickMs == StaleMs \div 2

\* clock steps of the live-table specification (SpecLive)
MaxTicks == 3

\* clock steps of the full specification (Spec)
MaxRecTicks == 1

\* frames recorded overall, over all sessions
MaxFrames == 3

MaxReplays == 2

\* frames recorded overall by the file-based server (SpecFile)
MaxFileFrames == 2

\* updatePlayers calls of the visualization client that await their fetch at once
MaxInflight == 3

VARIABLES
  players,              \* const players = new Map()
  isRecording,          \* let isRecording
  currentReplayBuffer,  \* let currentReplayBuffer
  savedReplays,         \* let savedReplays
  clock,                \* the value Date.now() returns
  resp,                 \* the response of the last request handled
  lastPut,              \* history: per name, the last record given to players.set and when
  session,              \* history: frames of the current / last recording session
  currentReplay,        \* let currentReplay (file-based server, line 353)
  replayDir,            \* the files of REPLAY_DIR: file name -> JSON text
  sealed,               \* history: per id, the recording stopRecording last wrote
  shadow,               \* the table of a twin server that is given the same POST /
                        \* and GET /data at the same clock values and never records
  vizPlayers,           \* PlayerVisualizer: private players = new Map()
  lastPos,              \* PlayerVisualizer: private lastPos = new Map()
  timer,                \* PlayerVisualizer: the interval of startPolling is set
  frameId,              \* Billboarding: an animation frame is requested
  inflight,             \* updatePlayers calls that await dataFetcher.fetch()
  destroyed,            \* history: destroy() has returned
  delivered             \* history: the list the last completed fetch returned

\* state of the file-based server only
fileVars == <<currentReplay, replayDir, sealed>>

\* state of the visualization client
vizVars == <<vizPlayers, lastPos, timer, frameId, inflight, destroyed, delivered>>

\* state the file-based server does not have
memVars == <<currentReplayBuffer, savedReplays, lastPut, session, shadow, vizVars>>

\* state of the servers
serverVars == <<players, isRecording, currentReplayBuffer, savedReplays, clock, resp,
                lastPut, session, currentReplay, replayDir, sealed, shadow>>

\* state that a step of the in-memory server which reads or writes the table leaves alone
outside == <<fileVars, vizVars>>

\* state that a step of the in-memory server which does not touch the table leaves alone
outsideTable == <<fileVars, vizVars, shadow>>

vars == <<players, isRecording, currentReplayBuffer, savedReplays, clock, resp,
          lastPut, session, currentReplay, replayDir, sealed, shadow,
          vizPlayers, lastPos, timer, frameId, inflight, destroyed, delivered>>

\* ------------------------------------------------------------ JS values
Null == [jsnull |-> TRUE]

IsNull(v) == "jsnull" \in DOMAIN v

\* o.f is truthy (the field is present; every present field of the payloads below is truthy)
Truthy(o, f) == f \in DOMAIN o

SampleA1 == [name |-> "A", x |-> 1, y |-> 1, z |-> 1]

SampleA2 == [name |-> "A", x |-> 2, y |-> 2, z |-> 2, yaw |-> 90, t |-> 1]

SampleB1 == [name |-> "B", x |-> 3, y |-> 3, z |-> 3]

Nameless == [x |-> 4, y |-> 4, z |-> 4]

\* a named record with no position
NoPosition == [name |-> "B"]

\* The JSON values a producer sends in the "data" form field.
LivePayloads ==
  { SampleA1, SampleA2, SampleB1,
    [players |-> <<SampleB1, Nameless, SampleA1>>],
    [players |-> <<SampleA2, Null, SampleB1>>],
    Nameless,
    NoPosition,
    Null }

\* payloads of either shape, of neither, and batches with malformed elements
ShapePayloads ==
  { Nameless,
    [players |-> <<SampleB1, Nameless, SampleA1>>],
    [players |-> <<SampleA2, Null, SampleB1>>] }

RecPayloads == { SampleA1, [players |-> <<SampleB1, SampleA1>>] }

\* req.body.data: absent, not JSON, or the JSON text of a payload
RawData(payloads) ==
  { [kind |-> "none"], [kind |-> "garbage"] }
    \cup { [kind |-> "json", value |-> v] : v \in payloads }

\* `replay_${Date.now()}`
ReplayId(now) == <<"replay_", now>>

ClockValues(maxTicks) == { k * TickMs : k \in 0..maxTicks }

\* ids a client asks for: every id a stop can have made, and one no stop has made
RequestIds == { ReplayId(t) : t \in ClockValues(MaxRecTicks + 1) }

\* Mutant: { t: now, ...p }, a t of the payload wins over the server's.
WithTClientWins(p, now) ==
  [f \in (DOMAIN p) \cup {"t"} |-> IF f \in DOMAIN p THEN p[f] ELSE now]

\* { ...p, t: now }
WithT(p, now) == [f \in (DOMAIN p) \cup {"t"} |-> IF f = "t" THEN now ELSE p[f]]

\* Mutant: set merges the new value into the entry already stored under the key.
MapSetMerge(m, key, value) ==
  [k \in (DOMAIN m) \cup {key} |->
     IF k # key THEN m[k]
     ELSE IF key \in DOMAIN m
       THEN [f \in (DOMAIN m[key]) \cup (DOMAIN value) |->
               IF f \in DOMAIN value THEN value[f] ELSE m[key][f]]
       ELSE value]

\* players.set(key, value)
MapSet(m, key, value) ==
  [k \in (DOMAIN m) \cup {key} |-> IF k = key THEN value ELSE m[k]]

\* players.delete(key) for every key of ks
MapDelete(m, ks) == [k \in (DOMAIN m) \ ks |-> m[k]]

EmptyMap == [k \in {} |-> Null]

Reply(op, status, body) == [op |-> op, status |-> status, body |-> body]

\* a response, kept together with the request body it answers
ReplyTo(req, op, status, body) ==
  [op |-> op, status |-> status, body |-> body, req |-> req]

\* ------------------------------------------------------------------ Init
Init ==
  /\ players = EmptyMap
  /\ isRecording = FALSE
  /\ currentReplayBuffer = <<>>
  /\ savedReplays = <<>>
  /\ clock = 0
  /\ resp = Reply("none", 0, [none |-> TRUE])
  /\ lastPut = EmptyMap
  /\ session = <<>>
  /\ currentReplay = Null
  /\ replayDir = EmptyMap
  /\ sealed = EmptyMap
  /\ shadow = EmptyMap
  \* the constructor has called startPolling(): one fetch awaits, the interval is set
  /\ vizPlayers = {}
  /\ lastPos = {}
  /\ timer = TRUE
  /\ frameId = FALSE
  /\ inflight = 1
  /\ destroyed = FALSE
  /\ delivered = <<>>

\* Date.now() moves on between two requests
Tick(maxTicks) ==
  /\ clock < maxTicks * TickMs
  /\ clock' = clock + TickMs
  /\ UNCHANGED <<players, isRecording, currentReplayBuffer, savedReplays, resp,
                 lastPut, session>>

\* ------------------------------------------------- POST / (lines 70-109)

\* parsedPayload.players.forEach(p => { if (p.name) players.set(p.name, {...p, t: now}) })
\* Reading p.name of a null element throws: the elements before it stay applied.
RECURSIVE ForEachPlayer(_, _, _)
ForEachPlayer(tbl, ps, now) ==
  IF ps = <<>> THEN [tbl |-> tbl, threw |-> FALSE]
  ELSE LET p == Head(ps) IN
       IF IsNull(p) THEN [tbl |-> tbl, threw |-> TRUE]
       ELSE ForEachPlayer(
              IF Truthy(p, "name") THEN MapSet(tbl, p.name, WithT(p, now)) ELSE tbl,
              Tail(ps), now)

\* A. Update Live Map (lines 85-93)
UpdateLiveMap(tbl, parsed, now) ==
  IF Truthy(parsed, "players")
    THEN ForEachPlayer(tbl, parsed.players, now)
  ELSE IF Truthy(parsed, "name")
    THEN [tbl |-> MapSet(tbl, parsed.name, WithT(parsed, now)), threw |-> FALSE]
  ELSE [tbl |-> tbl, threw |-> FALSE]

\* { t: now, players: parsedPayload.players || [parsedPayload] }
Frame(parsed, now) ==
  [t |-> now,
   players |-> IF Truthy(parsed, "players") THEN parsed.players ELSE <<parsed>>]

\* Mutant: the frame is pushed whether or not a recording is active.
VcrRecordAlways(buf, recording, parsed, now) == Append(buf, Frame(parsed, now))

\* Mutant: only batch payloads are recorded.
VcrRecordBatchOnly(buf, recording, parsed, now) ==
  IF recording /\ Truthy(parsed, "players") THEN Append(buf, Frame(parsed, now)) ELSE buf

\* B. VCR Recording (lines 95-102)
VcrRecord(buf, recording, parsed, now) ==
  IF recording THEN Append(buf, Frame(parsed, now)) ELSE buf

\* Mutant: while a recording is active a well-formed payload goes to the buffer
\* only, and the table is left as it was.
PostRootOutcomeRecorderOnly(raw, tbl, buf, recording, now) ==
  IF raw.kind = "none"
    THEN [tbl |-> tbl, buf |-> buf, status |-> 400, body |-> [error |-> "Missing data"]]
  ELSE IF raw.kind = "garbage"
    THEN [tbl |-> tbl, buf |-> buf, status |-> 400, body |-> [error |-> "Invalid JSON"]]
  ELSE IF IsNull(raw.value) \/ UpdateLiveMap(tbl, raw.value, now).threw
    THEN [tbl |-> tbl, buf |-> buf, status |-> 500, body |-> [error |-> "Server error"]]
  ELSE [tbl |-> IF recording THEN tbl ELSE UpdateLiveMap(tbl, raw.value, now).tbl,
        buf |-> VcrRecord(buf, recording, raw.value, now),
        status |-> 200, body |-> [status |-> "ok"]]

\* The whole handler: what it leaves in the table and the buffer, and its response.
PostRootOutcome(raw, tbl, buf, recording, now) ==
  IF raw.kind = "none"
    THEN [tbl |-> tbl, buf |-> buf, status |-> 400, body |-> [error |-> "Missing data"]]
  ELSE IF raw.kind = "garbage"
    THEN [tbl |-> tbl, buf |-> buf, status |-> 400, body |-> [error |-> "Invalid JSON"]]
  ELSE IF IsNull(raw.value)
    \* parsedPayload.players on null throws before anything is written
    THEN [tbl |-> tbl, buf |-> buf, status |-> 500, body |-> [error |-> "Server error"]]
  ELSE LET live == UpdateLiveMap(tbl, raw.value, now) IN
       IF live.threw
         THEN [tbl |-> live.tbl, buf |-> buf, status |-> 500,
               body |-> [error |-> "Server error"]]
         ELSE [tbl |-> live.tbl,
               buf |-> VcrRecord(buf, recording, raw.value, now),
               status |-> 200, body |-> [status |-> "ok"]]

\* History: the records the handler gave to players.set, in order.
RECURSIVE PutsOfList(_)
PutsOfList(ps) ==
  IF ps = <<>> \/ IsNull(Head(ps)) THEN <<>>
  ELSE IF Truthy(Head(ps), "name") THEN <<Head(ps)>> \o PutsOfList(Tail(ps))
  ELSE PutsOfList(Tail(ps))

PutsOf(raw) ==
  IF raw.kind # "json" \/ IsNull(raw.value) THEN <<>>
  ELSE IF Truthy(raw.value, "players") THEN PutsOfList(raw.value.players)
  ELSE IF Truthy(raw.value, "name") THEN <<raw.value>>
  ELSE <<>>

\* per name: the last record put, when, and the record it replaced (Null: none)
RECURSIVE LogPuts(_, _, _)
LogPuts(log, puts, now) ==
  IF puts = <<>> THEN log
  ELSE LET name == Head(puts).name IN
       LogPuts([k \in (DOMAIN log) \cup {name} |->
                  IF k = name
                    THEN [sample |-> Head(puts), at |-> now,
                          replaced |-> IF name \in DOMAIN log THEN log[name].sample
                                       ELSE Null]
                    ELSE log[k]],
               Tail(puts), now)

\* Frames held by the catalog and the active buffer (bounds the model only).
RECURSIVE StoredFrames(_)
StoredFrames(rs) == IF rs = <<>> THEN 0 ELSE Len(Head(rs).frames) + StoredFrames(Tail(rs))

\* frames: currentReplayBuffer (line 42) stores a reference: from a stop that saved
\* the buffer until the next start assigns a new array (line 26), the newest
\* record's frames and currentReplayBuffer are one array, and a push to the
\* buffer is a push to the record.
Aliased(rs, buf, newBuf, recording) ==
  IF ~recording /\ Len(buf) > 0 /\ Len(rs) > 0 /\ newBuf # buf
    THEN [rs EXCEPT ![Len(rs)].frames = newBuf]
    ELSE rs

PostRoot(payloads) ==
  \E raw \in RawData(payloads) :
    LET out == PostRootOutcome(raw, players, currentReplayBuffer, isRecording, clock) IN
    /\ isRecording => StoredFrames(savedReplays) + Len(currentReplayBuffer) < MaxFrames
    /\ players' = out.tbl
    /\ currentReplayBuffer' = out.buf
    /\ savedReplays' = Aliased(savedReplays, currentReplayBuffer, out.buf, isRecording)
    /\ resp' = ReplyTo(raw, "POST /", out.status, out.body)
    /\ lastPut' = LogPuts(lastPut, PutsOf(raw), clock)
    /\ session' = IF isRecording /\ out.status = 200
                    THEN Append(session, Frame(raw.value, clock))
                    ELSE session
    /\ shadow' = PostRootOutcome(raw, shadow, <<>>, FALSE, clock).tbl
    /\ UNCHANGED <<isRecording, clock>>

\* --------------------------------------------- GET /data (lines 112-126)
IsActive(data, now) == now - data.t < StaleMs

ActiveNames(tbl, now) == { name \in DOMAIN tbl : IsActive(tbl[name], now) }

\* Mutant: stale entries are filtered from the answer but stay in the table.
EvictNothing(tbl, now) == tbl

\* else players.delete(name)
Evict(tbl, now) == MapDelete(tbl, (DOMAIN tbl) \ ActiveNames(tbl, now))

\* activePlayers
ActivePlayers(tbl, now) == { tbl[name] : name \in ActiveNames(tbl, now) }

GetData ==
  /\ players' = Evict(players, clock)
  /\ resp' = Reply("GET /data", 200,
                   [players |-> ActivePlayers(players, clock), at |-> clock])
  /\ shadow' = Evict(shadow, clock)
  /\ UNCHANGED <<isRecording, currentReplayBuffer, savedReplays, clock, lastPut,
                 session>>

\* Mutant: start does not look at isRecording.
RecordStartUnguarded ==
  /\ Len(savedReplays) < MaxReplays
  /\ isRecording' = TRUE
  /\ currentReplayBuffer' = <<>>
  /\ resp' = Reply("POST /record/start", 200, [status |-> "recording_started"])
  /\ session' = <<>>
  /\ UNCHANGED <<players, savedReplays, clock, lastPut>>

\* Mutant: start empties the buffer array in place (currentReplayBuffer.length = 0)
\* instead of assigning a new array, which empties the record that shares it.
RecordStartClearInPlace ==
  IF isRecording
    THEN /\ resp' = Reply("POST /record/start", 400, [error |-> "Already recording"])
         /\ UNCHANGED <<players, isRecording, currentReplayBuffer, savedReplays,
                        clock, lastPut, session>>
    ELSE /\ Len(savedReplays) < MaxReplays
         /\ isRecording' = TRUE
         /\ currentReplayBuffer' = <<>>
         /\ savedReplays' = IF Len(currentReplayBuffer) > 0 /\ Len(savedReplays) > 0
                              THEN [savedReplays EXCEPT ![Len(savedReplays)].frames = <<>>]
                              ELSE savedReplays
         /\ resp' = Reply("POST /record/start", 200, [status |-> "recording_started"])
         /\ session' = <<>>
         /\ UNCHANGED <<players, clock, lastPut>>

\* Mutant: start keeps the frames that are in the buffer.
RecordStartKeepBuffer ==
  IF isRecording
    THEN /\ resp' = Reply("POST /record/start", 400, [error |-> "Already recording"])
         /\ UNCHANGED <<players, isRecording, currentReplayBuffer, savedReplays,
                        clock, lastPut, session>>
    ELSE /\ Len(savedReplays) < MaxReplays
         /\ isRecording' = TRUE
         /\ resp' = Reply("POST /record/start", 200, [status |-> "recording_started"])
         /\ session' = <<>>
         /\ UNCHANGED <<players, currentReplayBuffer, savedReplays, clock, lastPut>>

\* ------------------------------------- POST /record/start (lines 22-29)
RecordStart ==
  IF isRecording
    THEN /\ resp' = Reply("POST /record/start", 400, [error |-> "Already recording"])
         /\ UNCHANGED <<players, isRecording, currentReplayBuffer, savedReplays,
                        clock, lastPut, session>>
    ELSE /\ Len(savedReplays) < MaxReplays
         /\ isRecording' = TRUE
         /\ currentReplayBuffer' = <<>>
         /\ resp' = Reply("POST /record/start", 200, [status |-> "recording_started"])
         /\ session' = <<>>
         /\ UNCHANGED <<players, savedReplays, clock, lastPut>>

\* -------------------------------------- POST /record/stop (lines 32-49)
\* savedReplays.push({ id, timestamp: Date.now(), frames, duration })
\* The record keeps a reference to the buffer array; the array is not written
\* again (pushes need isRecording, start assigns a new array), so a copy models it.
SaveReplay(rs, buf, id, stamp) ==
  IF Len(buf) > 0
    THEN Append(rs, [id |-> id, timestamp |-> stamp, frames |-> buf,
                     duration |-> Len(buf) * 100])
    ELSE rs

\* Mutant: stop does not look at isRecording.
RecordStopUnguarded ==
  /\ Len(savedReplays) < MaxReplays
  /\ isRecording' = FALSE
  /\ savedReplays' = SaveReplay(savedReplays, currentReplayBuffer, ReplayId(clock), clock)
  /\ resp' = Reply("POST /record/stop", 200,
                   [status |-> "recording_stopped", id |-> ReplayId(clock)])
  /\ UNCHANGED <<players, currentReplayBuffer, clock, lastPut, session>>

\* Mutant: a served stop answers 200 and leaves the recorder Recording.
RecordStopKeepsFlag ==
  IF ~isRecording
    THEN /\ resp' = Reply("POST /record/stop", 400, [error |-> "Not recording"])
         /\ UNCHANGED <<players, isRecording, currentReplayBuffer, savedReplays,
                        clock, lastPut, session>>
    ELSE /\ Len(savedReplays) < MaxReplays
         /\ savedReplays' = SaveReplay(savedReplays, currentReplayBuffer,
                                       ReplayId(clock), clock)
         /\ resp' = Reply("POST /record/stop", 200,
                          [status |-> "recording_stopped", id |-> ReplayId(clock)])
         /\ UNCHANGED <<players, isRecording, currentReplayBuffer, clock, lastPut,
                        session>>

\* Mutant: a served stop also empties the live table.
RecordStopClearsTable ==
  IF ~isRecording
    THEN /\ resp' = Reply("POST /record/stop", 400, [error |-> "Not recording"])
         /\ UNCHANGED <<players, isRecording, currentReplayBuffer, savedReplays,
                        clock, lastPut, session>>
    ELSE /\ isRecording' = FALSE
         /\ players' = EmptyMap
         /\ savedReplays' = SaveReplay(savedReplays, currentReplayBuffer,
                                       ReplayId(clock), clock)
         /\ resp' = Reply("POST /record/stop", 200,
                          [status |-> "recording_stopped", id |-> ReplayId(clock)])
         /\ UNCHANGED <<currentReplayBuffer, clock, lastPut, session>>

RecordStop ==
  IF ~isRecording
    THEN /\ resp' = Reply("POST /record/stop", 400, [error |-> "Not recording"])
         /\ UNCHANGED <<players, isRecording, currentReplayBuffer, savedReplays,
                        clock, lastPut, session>>
    ELSE \E stamp \in { clock, clock + TickMs } \cap ClockValues(MaxRecTicks) :
         /\ isRecording' = FALSE
         /\ savedReplays' = SaveReplay(savedReplays, currentReplayBuffer,
                                       ReplayId(clock), stamp)
         /\ clock' = stamp
         /\ resp' = Reply("POST /record/stop", 200,
                          [status |-> "recording_stopped", id |-> ReplayId(clock)])
         /\ UNCHANGED <<players, currentReplayBuffer, lastPut, session>>

\* ------------------------------------------ GET /replays (lines 52-60)
ReplayMeta(rs) ==
  [i \in 1..Len(rs) |->
     [id |-> rs[i].id, timestamp |-> rs[i].timestamp, frameCount |-> Len(rs[i].frames)]]

ReplayList ==
  /\ resp' = Reply("GET /replays", 200, [list |-> ReplayMeta(savedReplays)])
  /\ UNCHANGED <<players, isRecording, currentReplayBuffer, savedReplays, clock,
                 lastPut, session>>

\* -------------------------------------- GET /replays/:id (lines 63-67)
\* Mutant: only the newest record is looked at.
FindNewestOnly(rs, id) ==
  IF Len(rs) > 0 /\ rs[Len(rs)].id = id THEN Len(rs) ELSE 0

\* savedReplays.find(r => r.id === id): the index of the first match, 0 for undefined
Find(rs, id) ==
  IF \E i \in 1..Len(rs) : rs[i].id = id
    THEN CHOOSE i \in 1..Len(rs) :
           /\ rs[i].id = id
           /\ \A j \in 1..(i - 1) : rs[j].id # id
    ELSE 0

ReplayGetOutcome(rs, id) ==
  IF Find(rs, id) = 0
    THEN [status |-> 404, body |-> [error |-> "Replay not found", id |-> id]]
    ELSE [status |-> 200, body |-> [frames |-> rs[Find(rs, id)].frames, id |-> id]]

ReplayGet ==
  \E id \in RequestIds :
    /\ resp' = Reply("GET /replays/:id", ReplayGetOutcome(savedReplays, id).status,
                     ReplayGetOutcome(savedReplays, id).body)
    /\ UNCHANGED <<players, isRecording, currentReplayBuffer, savedReplays, clock,
                   lastPut, session>>

\* ------------------------------------------------------------------ Spec
Next ==
  \/ Tick(MaxRecTicks) /\ UNCHANGED outsideTable
  \/ PostRoot(RecPayloads) /\ UNCHANGED outside
  \/ GetData /\ UNCHANGED outside
  \/ RecordStart /\ UNCHANGED outsideTable
  \/ RecordStop /\ UNCHANGED outsideTable
  \/ ReplayList /\ UNCHANGED outsideTable
  \/ ReplayGet /\ UNCHANGED outsideTable

Spec == Init /\ [][Next]_vars

\* The live table alone, with every payload shape and a clock that passes the
\* staleness threshold; no recording is started.
NextLive ==
  \/ Tick(MaxTicks) /\ UNCHANGED outsideTable
  \/ PostRoot(LivePayloads) /\ UNCHANGED outside
  \/ GetData /\ UNCHANGED outside

SpecLive == Init /\ [][NextLive]_vars

\* The live table under a fair scheduler: the clock keeps advancing and polls
\* keep being served.  Producers send only while a sample can still reach the
\* staleness threshold before the clock bound, and then fall silent.
NextLiveFair ==
  \/ Tick(MaxTicks) /\ UNCHANGED outsideTable
  \/ clock + StaleMs <= MaxTicks * TickMs /\ PostRoot(LivePayloads) /\ UNCHANGED outside
  \/ GetData /\ UNCHANGED outside

SpecLiveFair ==
  /\ Init
  /\ [][NextLiveFair]_vars
  /\ WF_vars(Tick(MaxTicks) /\ UNCHANGED outsideTable)
  /\ WF_vars(GetData /\ UNCHANGED outside)

\* Every handler of the in-memory server, with a clock that passes the staleness
\* threshold (a stop is served while its clock reads stay within MaxRecTicks).
RelayPayloads == { SampleA1 }

NextRelay ==
  \/ Tick(MaxTicks) /\ UNCHANGED outsideTable
  \/ PostRoot(RelayPayloads) /\ UNCHANGED outside
  \/ GetData /\ UNCHANGED outside
  \/ RecordStart /\ UNCHANGED outsideTable
  \/ RecordStop /\ UNCHANGED outsideTable
  \/ ReplayList /\ UNCHANGED outsideTable
  \/ ReplayGet /\ UNCHANGED outsideTable

SpecRelay == Init /\ [][NextRelay]_vars

\* The recorder with payloads of every shape.
NextShapes ==
  \/ Tick(MaxRecTicks) /\ UNCHANGED outsideTable
  \/ PostRoot(ShapePayloads) /\ UNCHANGED outside
  \/ GetData /\ UNCHANGED outside
  \/ RecordStart /\ UNCHANGED outsideTable
  \/ RecordStop /\ UNCHANGED outsideTable

SpecShapes == Init /\ [][NextShapes]_vars

\* ======================================== file-based server (lines 328-492)
\* JSON values carry their JavaScript type: a number, a string, an array, or an
\* object kept as the sequence of its members in insertion order.
Num(n) == [num |-> n]

Str(s) == [str |-> s]

Arr(s) == [arr |-> s]

Obj(members) == [obj |-> members]

Member(k, v) == [key |-> k, val |-> v]

HasKey(ms, k) == \E i \in 1..Len(ms) : ms[i].key = k

\* o.k, for a key the object has
Get(ms, k) == ms[CHOOSE i \in 1..Len(ms) : ms[i].key = k].val

\* o.k = v: an existing key keeps its place, a new key goes last
Put(ms, k, v) ==
  IF HasKey(ms, k)
    THEN [i \in 1..Len(ms) |-> IF ms[i].key = k THEN Member(k, v) ELSE ms[i]]
    ELSE Append(ms, Member(k, v))

\* { ...a, ...b }
RECURSIVE Spread(_, _)
Spread(a, b) ==
  IF b = <<>> THEN a ELSE Spread(Put(a, Head(b).key, Head(b).val), Tail(b))

\* typeof o.k === tag ("num" for "number", "str" for "string")
TypeofIs(ms, k, tag) == HasKey(ms, k) /\ tag \in DOMAIN Get(ms, k)

FileA1 ==
  Obj(<<Member("name", Str("A")), Member("x", Num(1)), Member("y", Num(1)),
        Member("z", Num(1))>>)

\* a sample with an extra field and its own t
FileA2 ==
  Obj(<<Member("name", Str("A")), Member("x", Num(2)), Member("y", Num(2)),
        Member("z", Num(2)), Member("yaw", Num(3)), Member("t", Num(1))>>)

\* z is a string, not a number
FileBadZ ==
  Obj(<<Member("name", Str("B")), Member("x", Num(3)), Member("y", Num(3)),
        Member("z", Str("3"))>>)

FilePayloads == { FileA1, FileA2, FileBadZ, Null }

\* ------------------------------------------ JSON.stringify / JSON.parse
\* A JSON text is the sequence of its tokens (the indentation that
\* JSON.stringify(v, null, 2) adds is whitespace between tokens).
Tok(kind, text) == [kind |-> kind, text |-> text]

RECURSIVE Digits(_)
\* the decimal digits of a natural number, most significant first
Digits(n) == IF n < 10 THEN <<n>> ELSE Append(Digits(n \div 10), n % 10)

RECURSIVE NumberOf(_)
\* the number a sequence of decimal digits denotes
NumberOf(ds) ==
  IF Len(ds) = 1 THEN ds[1]
  ELSE 10 * NumberOf(SubSeq(ds, 1, Len(ds) - 1)) + ds[Len(ds)]

\* the token of a number: its numeral
NumTok(n) == [kind |-> "num", digits |-> Digits(n)]

RECURSIVE Stringify(_), StringifyElements(_), StringifyMembers(_)
\* JSON.stringify(v)
Stringify(v) ==
  IF "num" \in DOMAIN v THEN << NumTok(v.num) >>
  ELSE IF "str" \in DOMAIN v THEN << Tok("str", v.str) >>
  ELSE IF "arr" \in DOMAIN v
    THEN << Tok("punct", "[") >> \o StringifyElements(v.arr) \o << Tok("punct", "]") >>
  ELSE << Tok("punct", "{") >> \o StringifyMembers(v.obj) \o << Tok("punct", "}") >>

StringifyElements(es) ==
  IF es = <<>> THEN <<>>
  ELSE Stringify(Head(es))
         \o (IF Len(es) > 1 THEN << Tok("punct", ",") >> ELSE <<>>)
         \o StringifyElements(Tail(es))

StringifyMembers(ms) ==
  IF ms = <<>> THEN <<>>
  ELSE << Tok("str", Head(ms).key), Tok("punct", ":") >>
         \o Stringify(Head(ms).val)
         \o (IF Len(ms) > 1 THEN << Tok("punct", ",") >> ELSE <<>>)
         \o StringifyMembers(Tail(ms))

RECURSIVE ParseValue(_, _), ParseElements(_, _, _), ParseMembers(_, _, _)
\* the value that starts at token i, and the place after it
ParseValue(ts, i) ==
  IF ts[i].kind = "num" THEN [val |-> Num(NumberOf(ts[i].digits)), next |-> i + 1]
  ELSE IF ts[i].kind = "str" THEN [val |-> Str(ts[i].text), next |-> i + 1]
  ELSE IF ts[i].text = "[" THEN ParseElements(ts, i + 1, <<>>)
  ELSE ParseMembers(ts, i + 1, <<>>)

ParseElements(ts, i, acc) ==
  IF ts[i] = Tok("punct", "]") THEN [val |-> Arr(acc), next |-> i + 1]
  ELSE IF ts[i] = Tok("punct", ",") THEN ParseElements(ts, i + 1, acc)
  ELSE LET r == ParseValue(ts, i) IN ParseElements(ts, r.next, Append(acc, r.val))

\* a key that occurs twice keeps its place and takes the later value
ParseMembers(ts, i, acc) ==
  IF ts[i] = Tok("punct", "}") THEN [val |-> Obj(acc), next |-> i + 1]
  ELSE IF ts[i] = Tok("punct", ",") THEN ParseMembers(ts, i + 1, acc)
  ELSE LET r == ParseValue(ts, i + 2) IN
       ParseMembers(ts, r.next, Put(acc, ts[i].text, r.val))

\* JSON.parse(text)
ParseJson(ts) == ParseValue(ts, 1).val

\* path.join(REPLAY_DIR, `replay_${id}.json`)
FileName(id) == "replay_" \o id \o ".json"

\* ids a client asks for: of every clock value a start can read, and one more
FileRequestIds == { ToString(t) : t \in ClockValues(MaxRecTicks + 1) }

Frames(replay) == Get(replay.obj, "frames").arr

RECURSIVE FramesOnDisk(_, _)
\* frames held by the files `names` of directory dir
FramesOnDisk(dir, names) ==
  IF names = {} THEN 0
  ELSE LET f == CHOOSE n \in names : TRUE IN
       Len(Frames(ParseJson(dir[f]))) + FramesOnDisk(dir, names \ {f})

\* ------------------------------------------------ POST / (lines 383-421)
\* The handler's outcome for req.body.data = raw; `stamp` is the value of the
\* Date.now() read when the frame is built (line 411), `now` that of line 405.
PostPlayerOutcome(raw, tbl, replay, recording, now, stamp) ==
  LET same == [tbl |-> tbl, replay |-> replay] IN
  IF raw.kind = "none"
    THEN same @@ [status |-> 400, body |-> [error |-> "Missing \"data\""]]
  ELSE IF raw.kind = "garbage" \/ IsNull(raw.value)
    THEN same @@ [status |-> 500, body |-> [error |-> "Server error"]]
  ELSE IF ~(/\ TypeofIs(raw.value.obj, "name", "str")
            /\ TypeofIs(raw.value.obj, "x", "num")
            /\ TypeofIs(raw.value.obj, "y", "num")
            /\ TypeofIs(raw.value.obj, "z", "num"))
    THEN same @@ [status |-> 400, body |-> [error |-> "Invalid player data structure"]]
  ELSE [tbl |-> MapSet(tbl, Get(raw.value.obj, "name").str,
                       Obj(Put(raw.value.obj, "t", Num(now)))),
        replay |-> IF recording /\ ~IsNull(replay)
                     THEN Obj(Put(replay.obj, "frames",
                            Arr(Append(Frames(replay),
                                  Obj(Spread(<<Member("t", Num(stamp))>>,
                                             raw.value.obj))))))
                     ELSE replay,
        status |-> 200,
        body |-> [status |-> "ok"]]

PostPlayer ==
  \E raw \in RawData(FilePayloads) :
  \E stamp \in { clock, clock + TickMs } \cap ClockValues(MaxRecTicks) :
    LET out == PostPlayerOutcome(raw, players, currentReplay, isRecording, clock, stamp) IN
    /\ out.replay # currentReplay =>
         Len(Frames(currentReplay)) + FramesOnDisk(replayDir, DOMAIN replayDir)
           < MaxFileFrames
    /\ out.replay = currentReplay => stamp = clock
    /\ players' = out.tbl
    /\ currentReplay' = out.replay
    /\ clock' = stamp
    /\ resp' = ReplyTo(raw, "POST /", out.status, out.body)
    /\ UNCHANGED <<isRecording, replayDir, sealed>>
    /\ UNCHANGED memVars

\* ------------------------------------------------ GET /data (lines 424-428)
GetPlayers ==
  /\ resp' = Reply("GET /data", 200, [players |-> { players[n] : n \in DOMAIN players }])
  /\ UNCHANGED <<players, isRecording, clock, currentReplay, replayDir, sealed>>
  /\ UNCHANGED memVars

\* -------------------- POST /replay/start (lines 433-439, startRecording 356-364)
ReplayStart ==
  IF isRecording
    THEN /\ resp' = Reply("POST /replay/start", 400, [error |-> "Already recording"])
         /\ UNCHANGED <<players, isRecording, clock, currentReplay, replayDir, sealed>>
         /\ UNCHANGED memVars
    ELSE \E started \in { clock, clock + TickMs } \cap ClockValues(MaxRecTicks) :
         /\ currentReplay' = Obj(<<Member("id", Str(ToString(clock))),
                                   Member("startedAt", Num(started)),
                                   Member("frames", Arr(<<>>))>>)
         /\ isRecording' = TRUE
         /\ clock' = started
         /\ resp' = Reply("POST /replay/start", 200, [status |-> "recording_started"])
         /\ UNCHANGED <<players, replayDir, sealed>>
         /\ UNCHANGED memVars

\* currentReplay.endedAt = Date.now()
Ended(replay, now) == Obj(Put(replay.obj, "endedAt", Num(now)))

\* Mutant: the file is written before endedAt is set.
WriteReplayEarly(dir, replay, now) ==
  MapSet(dir, FileName(Get(replay.obj, "id").str), Stringify(replay))

\* fs.writeFileSync(filePath, JSON.stringify(currentReplay, null, 2)), endedAt set
WriteReplay(dir, replay, now) ==
  MapSet(dir, FileName(Get(replay.obj, "id").str), Stringify(Ended(replay, now)))

\* --------------------- POST /replay/stop (lines 442-448, stopRecording 366-380)
ReplayStop ==
  IF ~isRecording
    THEN /\ resp' = Reply("POST /replay/stop", 400, [error |-> "Not recording"])
         /\ UNCHANGED <<players, isRecording, clock, currentReplay, replayDir, sealed>>
         /\ UNCHANGED memVars
    ELSE /\ replayDir' = IF IsNull(currentReplay) THEN replayDir
                         ELSE WriteReplay(replayDir, currentReplay, clock)
         /\ sealed' = IF IsNull(currentReplay) THEN sealed
                      ELSE MapSet(sealed, Get(currentReplay.obj, "id").str,
                                  Ended(currentReplay, clock))
         /\ isRecording' = IF IsNull(currentReplay) THEN isRecording ELSE FALSE
         /\ currentReplay' = Null
         /\ resp' = Reply("POST /replay/stop", 200, [status |-> "recording_stopped"])
         /\ UNCHANGED <<players, clock>>
         /\ UNCHANGED memVars

\* { id, startedAt, endedAt, frameCount } of a parsed file
FileMeta(content) ==
  [id |-> Get(content.obj, "id"),
   startedAt |-> Get(content.obj, "startedAt"),
   endedAt |-> Get(content.obj, "endedAt"),
   frameCount |-> Len(Frames(content))]

\* ------------------------------------------ GET /replay/list (lines 451-467)
ReplayListFiles ==
  /\ resp' = Reply("GET /replay/list", 200,
                   [list |-> { FileMeta(ParseJson(replayDir[f])) : f \in DOMAIN replayDir }])
  /\ UNCHANGED <<players, isRecording, clock, currentReplay, replayDir, sealed>>
  /\ UNCHANGED memVars

\* the answer of GET /replay/:id over directory dir
ReplayLoadOutcome(dir, id) ==
  IF FileName(id) \notin DOMAIN dir
    THEN [status |-> 404, body |-> [error |-> "Replay not found"]]
    ELSE [status |-> 200, body |-> ParseJson(dir[FileName(id)])]

\* ------------------------------------------- GET /replay/:id (lines 470-478)
ReplayLoad ==
  \E id \in FileRequestIds :
    LET out == ReplayLoadOutcome(replayDir, id) IN
    /\ resp' = ReplyTo(id, "GET /replay/:id", out.status, out.body)
    /\ UNCHANGED <<players, isRecording, clock, currentReplay, replayDir, sealed>>
    /\ UNCHANGED memVars

NextFile ==
  \/ Tick(MaxRecTicks) /\ UNCHANGED outsideTable
  \/ PostPlayer
  \/ GetPlayers
  \/ ReplayStart
  \/ ReplayStop
  \/ ReplayListFiles
  \/ ReplayLoad

SpecFile == Init /\ [][NextFile]_vars

\* ================================== bridge server (src/unnamed/part_003)
\* The bridge has the live table alone: POST / (lines 19-60), GET /data (lines
\* 63-81, the code of GetData above) and GET /health (lines 84-89).
BridgePayloads ==
  { SampleA1, SampleB1, [players |-> <<SampleA2, Null, SampleB1>>], Nameless }

\* POST / of the bridge: the table it leaves and its response
BridgePostOutcome(raw, tbl, now) ==
  IF raw.kind = "none"
    THEN [tbl |-> tbl, status |-> 400, body |-> [error |-> "Missing \"data\" field"]]
  ELSE IF raw.kind = "garbage"
    THEN [tbl |-> tbl, status |-> 400, body |-> [error |-> "Invalid JSON in data field"]]
  ELSE IF IsNull(raw.value)
    THEN [tbl |-> tbl, status |-> 500, body |-> [error |-> "Server error"]]
  ELSE LET live == UpdateLiveMap(tbl, raw.value, now) IN
       IF live.threw
         THEN [tbl |-> live.tbl, status |-> 500, body |-> [error |-> "Server error"]]
         ELSE [tbl |-> live.tbl, status |-> 200,
               body |-> [status |-> "ok", count |-> Cardinality(DOMAIN live.tbl)]]

BridgePost ==
  \E raw \in RawData(BridgePayloads) :
    LET out == BridgePostOutcome(raw, players, clock) IN
    /\ players' = out.tbl
    /\ resp' = ReplyTo(raw, "POST /", out.status, out.body)
    /\ lastPut' = LogPuts(lastPut, PutsOf(raw), clock)
    /\ UNCHANGED <<isRecording, currentReplayBuffer, savedReplays, clock, session>>
    /\ UNCHANGED outsideTable

\* GET /health: { status: "ok", activePlayers: players.size }
BridgeHealth ==
  /\ resp' = Reply("GET /health", 200,
                   [status |-> "ok", activePlayers |-> Cardinality(DOMAIN players)])
  /\ UNCHANGED <<players, isRecording, currentReplayBuffer, savedReplays, clock,
                 lastPut, session>>
  /\ UNCHANGED outsideTable

NextBridge ==
  \/ Tick(MaxTicks) /\ UNCHANGED outsideTable
  \/ BridgePost
  \/ GetData /\ UNCHANGED outside
  \/ BridgeHealth

SpecBridge == Init /\ [][NextBridge]_vars

\* ===================== visualization client (Visualizer/PlayerVisualizer.ts)
\* A fetched player: its name, whether bounds.containsPoint(transformer.map(x, y, z))
\* holds, and whether it has a velocity.
VizP1 == [name |-> "P1", inBounds |-> TRUE, velocity |-> TRUE]

VizP2 == [name |-> "P2", inBounds |-> TRUE, velocity |-> TRUE]

VizP2Far == [name |-> "P2", inBounds |-> FALSE, velocity |-> TRUE]

\* the server's entries carry no velocity unless the producer sent one
VizP1NoVelocity == [name |-> "P1", inBounds |-> TRUE, velocity |-> FALSE]

\* what dataFetcher.fetch() resolves to: json.players, or [] (no players, HTTP
\* error, network error)
FetchResults ==
  { <<>>, <<VizP1>>, <<VizP2>>, <<VizP1, VizP2>>, <<VizP2Far>>, <<VizP1, VizP2Far>>,
    <<VizP2, VizP1NoVelocity>> }

\* for (const p of playersData) { ... } (lines 56-95); Math.hypot(vel.x, ...)
\* throws for a player without velocity, which ends updatePlayers.
RECURSIVE ForEachFetched(_, _)
ForEachFetched(st, ps) ==
  IF ps = <<>> THEN st
  ELSE LET p == Head(ps)
           seen == st.seen \cup {p.name}
       IN
       IF ~p.inBounds THEN ForEachFetched([st EXCEPT !.seen = seen], Tail(ps))
       ELSE IF ~p.velocity THEN [st EXCEPT !.seen = seen, !.threw = TRUE]
       ELSE ForEachFetched(
              [seen |-> seen,
               players |-> st.players \cup {p.name},
               lastPos |-> st.lastPos \cup {p.name},
               \* billboarding.start when the first player appears
               frameId |-> st.frameId \/ (p.name \notin st.players /\ st.players = {}),
               threw |-> FALSE],
              Tail(ps))

\* updatePlayers after its fetch has resolved to `data` (lines 52-100)
UpdateOutcome(data, pl, lp, fid) ==
  IF data = <<>>
    THEN [seen |-> {}, players |-> pl, lastPos |-> lp, frameId |-> fid, threw |-> FALSE]
  ELSE LET st == ForEachFetched([seen |-> {}, players |-> pl, lastPos |-> lp,
                                 frameId |-> fid, threw |-> FALSE], data) IN
       IF st.threw THEN st
       \* Remove vanished players
       ELSE [st EXCEPT !.players = st.players \cap st.seen,
                       !.lastPos = st.lastPos \ (st.players \ st.seen)]

\* the interval fires: updatePlayers() runs up to its await (lines 50-51, 207)
StartUpdate ==
  /\ timer
  /\ inflight < MaxInflight
  /\ inflight' = inflight + 1
  /\ UNCHANGED <<vizPlayers, lastPos, timer, frameId, destroyed, delivered>>
  /\ UNCHANGED serverVars

\* a fetch resolves and updatePlayers runs to its end (lines 52-101)
FinishUpdate ==
  /\ inflight > 0
  /\ \E data \in FetchResults :
       LET out == UpdateOutcome(data, vizPlayers, lastPos, frameId) IN
       /\ vizPlayers' = out.players
       /\ lastPos' = out.lastPos
       /\ frameId' = out.frameId
       /\ delivered' = data
  /\ inflight' = inflight - 1
  /\ UNCHANGED <<timer, destroyed>>
  /\ UNCHANGED serverVars

\* destroy() (lines 210-217)
Destroy ==
  /\ timer' = FALSE
  /\ frameId' = FALSE
  /\ vizPlayers' = {}
  /\ lastPos' = {}
  /\ destroyed' = TRUE
  /\ UNCHANGED <<inflight, delivered>>
  /\ UNCHANGED serverVars

NextViz ==
  \/ StartUpdate
  \/ FinishUpdate
  \/ Destroy

SpecViz == Init /\ [][NextViz]_vars

\* ================================================================ claims

\* The step is the handling of request `op` (a Tick leaves resp as it was and
\* moves the clock; every handler writes its own response).
Handles(op) == resp'.op = op /\ ~(resp' = resp /\ clock' # clock)

\* entry e has exactly the fields of sample s, with s's values (t aside)
SameFields(e, s) ==
  /\ (DOMAIN e) \ {"t"} = (DOMAIN s) \ {"t"}
  /\ \A f \in (DOMAIN s) \ {"t"} : e[f] = s[f]

C2_StaleBoundary ==
  resp.op = "GET /data" =>
    \A n \in DOMAIN lastPut :
      (\A e \in resp.body.players : e.name # n)
        <=> (resp.body.at - lastPut[n].at > StaleMs)

C4_StartWhileRecording ==
  [][(isRecording /\ Handles("POST /record/start")) =>
       /\ resp'.status = 400
       /\ resp'.body = [error |-> "Already recording"]
       /\ isRecording'
       /\ UNCHANGED <<currentReplayBuffer, savedReplays, players>>]_vars

\* C4 witness: a rejected start with a frame in the active buffer.
C4_Witness ==
  /\ resp.op = "POST /record/start"
  /\ resp.status = 400
  /\ isRecording
  /\ Len(currentReplayBuffer) > 0

\* C5: a stop request handled while idle is answered 400 "Not recording", with
\* no id, and leaves the recorder, the catalog, the buffer and the table alone.
C5_StopWhileIdle ==
  [][(~isRecording /\ Handles("POST /record/stop")) =>
       /\ resp'.status = 400
       /\ resp'.body = [error |-> "Not recording"]
       /\ ~isRecording'
       /\ UNCHANGED <<currentReplayBuffer, savedReplays, players>>]_vars

\* C5 witness: a rejected stop after a session was sealed (its frames are still
\* in the idle buffer).
C5_Witness ==
  /\ resp.op = "POST /record/stop"
  /\ resp.status = 400
  /\ ~isRecording
  /\ Len(currentReplayBuffer) > 0
  /\ Len(savedReplays) > 0

\* C6: a stop that ends a session of N >= 1 accepted ingest calls appends exactly
\* one record to the catalog, and list reports frameCount = N for it.
C6_CycleFrameCount ==
  [][(isRecording /\ Handles("POST /record/stop") /\ Len(session) >= 1) =>
       /\ Len(savedReplays') = Len(savedReplays) + 1
       /\ SubSeq(savedReplays', 1, Len(savedReplays)) = savedReplays
       /\ ReplayMeta(savedReplays')[Len(savedReplays')].frameCount = Len(session)
       /\ ReplayMeta(savedReplays')[Len(savedReplays')].id = resp'.body.id]_vars

\* C6 witness: the second session, of two accepted ingest calls, was sealed.
C6_Witness ==
  /\ resp.op = "POST /record/stop"
  /\ resp.status = 200
  /\ Len(session) = 2
  /\ Len(savedReplays) = 2
  /\ Len(savedReplays[2].frames) = 2

\* C7 (as claimed): a get of the id a successful stop returned, issued right
\* after that stop, succeeds.
C7_StopIdRetrievable ==
  [][(/\ resp.op = "POST /record/stop"
      /\ resp.status = 200
      /\ Handles("GET /replays/:id")
      /\ resp'.body.id = resp.body.id) => resp'.status = 200]_vars

\* C8: get answers 404 iff no record of the catalog has the id (200 otherwise),
\* and a 404 leaves the catalog, the recorder and the table alone.
C8_GetNotFound ==
  [][Handles("GET /replays/:id") =>
       /\ resp'.status \in {200, 404}
       /\ (resp'.status = 404) <=>
            ~(\E i \in 1..Len(savedReplays) : savedReplays[i].id = resp'.body.id)
       /\ resp'.status = 404 =>
            UNCHANGED <<savedReplays, isRecording, currentReplayBuffer, players>>]_vars

\* C8 witness: a get answered 404 while the catalog holds two records with
\* different ids.
C8_Witness ==
  /\ resp.op = "GET /replays/:id"
  /\ resp.status = 404
  /\ Len(savedReplays) = 2
  /\ savedReplays[1].id # savedReplays[2].id

\* C9 (as claimed): a get of the id under which a stop has just stored a session
\* returns that session's frames.
C9_GetJustStored ==
  [][(/\ resp.op = "POST /record/stop"
      /\ resp.status = 200
      /\ Len(session) > 0
      /\ Handles("GET /replays/:id")
      /\ resp'.body.id = resp.body.id)
       => (resp'.status = 200 /\ resp'.body.frames = session)]_vars

\* C10 (as claimed): list has one entry per stored record, in order, and every
\* entry's frameCount is the number of frames get returns for the entry's id.
C10_ListMatchesGet ==
  resp.op = "GET /replays" =>
    /\ Len(resp.body.list) = Len(savedReplays)
    /\ \A i \in 1..Len(savedReplays) :
         /\ resp.body.list[i].id = savedReplays[i].id
         /\ ReplayGetOutcome(savedReplays, resp.body.list[i].id).status = 200
         /\ resp.body.list[i].frameCount
              = Len(ReplayGetOutcome(savedReplays, resp.body.list[i].id).body.frames)

\* C11: a POST / handled while idle leaves the buffer and the catalog alone; the
\* buffer changes only by a start or by a POST / handled while recording, and
\* the catalog only by a stop handled while recording, which appends one record
\* whose frames are the buffer. So nothing ingested while idle is in any replay.
C11_IdleIngestNotRecorded ==
  [][/\ (~isRecording /\ Handles("POST /")) =>
          UNCHANGED <<currentReplayBuffer, savedReplays>>
     /\ currentReplayBuffer' # currentReplayBuffer =>
          \/ Handles("POST /record/start")
          \/ isRecording /\ Handles("POST /")
     /\ savedReplays' # savedReplays =>
          /\ isRecording
          /\ Handles("POST /record/stop")
          /\ Len(savedReplays') = Len(savedReplays) + 1
          /\ SubSeq(savedReplays', 1, Len(savedReplays)) = savedReplays
          /\ savedReplays'[Len(savedReplays')].frames = currentReplayBuffer]_vars

\* C11 witness: between a stop that sealed one frame and the next start, a POST /
\* put A into the table; the buffer and the catalog still hold that one frame.
C11_Witness ==
  /\ resp.op = "POST /"
  /\ resp.status = 200
  /\ ~isRecording
  /\ Len(savedReplays) = 1
  /\ Len(savedReplays[1].frames) = 1
  /\ Len(currentReplayBuffer) = 1
  /\ "A" \in DOMAIN lastPut
  /\ lastPut["A"].at > savedReplays[1].frames[1].t

\* C12: no step changes or removes a stored record, and the answer of get for an
\* id that is in the catalog never changes (a step that changes the catalog only
\* adds records after the stored ones).
C12_SealedImmutable ==
  [][savedReplays' # savedReplays =>
       /\ Len(savedReplays') >= Len(savedReplays)
       /\ \A i \in 1..Len(savedReplays) : savedReplays'[i] = savedReplays[i]
       /\ \A id \in RequestIds :
            ReplayGetOutcome(savedReplays, id).status = 200 =>
              ReplayGetOutcome(savedReplays', id) = ReplayGetOutcome(savedReplays, id)]_vars

\* C12 witness: after a later session of two frames was recorded and sealed, get
\* still returns the single frame of the first replay.
C12_Witness ==
  /\ resp.op = "GET /replays/:id"
  /\ resp.status = 200
  /\ Len(savedReplays) = 2
  /\ Len(savedReplays[1].frames) = 1
  /\ Len(savedReplays[2].frames) = 2
  /\ resp.body.id = savedReplays[1].id
  /\ resp.body.frames = savedReplays[1].frames

\* frame.t of the i-th frame
FrameT(frames, i) == Get(frames[i].obj, "t").num

\* C13 (as claimed): in every replay file the frames are in non-decreasing order of t.
C13_FramesOrdered ==
  \A f \in DOMAIN replayDir :
    LET frames == Frames(ParseJson(replayDir[f])) IN
    \A i \in 1..(Len(frames) - 1) : FrameT(frames, i) <= FrameT(frames, i + 1)

\* C14 (as claimed): no two stored records share an id.
C14_UniqueIds ==
  \A i, j \in 1..Len(savedReplays) : i # j => savedReplays[i].id # savedReplays[j].id

\* C15 (as claimed): every entry of the live table has a name and a position x, y, z.
C15_RequiredFields ==
  \A n \in DOMAIN players : {"name", "x", "y", "z"} \subseteq DOMAIN players[n]

\* the payload is neither a record with a players list nor a record with a name
NeitherShape(v) == ~Truthy(v, "players") /\ ~Truthy(v, "name")

\* C16 (as claimed): a POST / whose payload has neither shape is answered with an
\* error and leaves the table and the active buffer alone.
C16_NeitherShapeRejected ==
  [][(/\ Handles("POST /")
      /\ resp'.req.kind = "json"
      /\ NeitherShape(resp'.req.value))
       => (resp'.status >= 400 /\ UNCHANGED <<players, currentReplayBuffer>>)]_vars

\* a batch element that is an object with a name
WellFormed(p) == ~IsNull(p) /\ Truthy(p, "name")

\* C17 (as claimed): a batch POST / is answered 200 and leaves every well-formed
\* element of the batch in the table, stamped by this call.
C17_BatchBestEffort ==
  [][(/\ Handles("POST /")
      /\ resp'.req.kind = "json"
      /\ Truthy(resp'.req.value, "players"))
       => /\ resp'.status = 200
          /\ \A i \in 1..Len(resp'.req.value.players) :
               LET p == resp'.req.value.players[i] IN
               WellFormed(p) =>
                 /\ p.name \in DOMAIN players'
                 /\ players'[p.name].t = clock]_vars

\* timestamps a client may put into its payload
ClientTimes == { 0, 1, 10000 }

\* C18: every entry's t is the server clock of the POST / that wrote it, also for
\* a payload with its own t; and payloads that differ only in their own t leave
\* the same table (hence the same answers to every later poll).
C18_ServerStamp ==
  /\ \A n \in DOMAIN players : players[n].t = lastPut[n].at
  /\ \A ct \in ClientTimes :
       /\ UpdateLiveMap(players, [SampleA2 EXCEPT !.t = ct], clock)
            = UpdateLiveMap(players, SampleA2, clock)
       /\ UpdateLiveMap(players, [players |-> <<[SampleA2 EXCEPT !.t = ct]>>], clock)
            = UpdateLiveMap(players, [players |-> <<SampleA2>>], clock)

\* C18 witness: SampleA2, whose own t is 1, was put at server time TickMs and a
\* later poll returned it stamped TickMs.
C18_Witness ==
  /\ resp.op = "GET /data"
  /\ "A" \in DOMAIN players
  /\ lastPut["A"].sample = SampleA2
  /\ players["A"].t = TickMs
  /\ resp.body.at > TickMs
  /\ players["A"] \in resp.body.players

\* names of the entries the last response returned, if it answers a poll
PolledNames ==
  IF resp.op = "GET /data" THEN { e.name : e \in resp.body.players } ELSE {}

\* the step is a POST / that writes an entry for name n
IngestOf(n) ==
  /\ Handles("POST /")
  /\ n \in DOMAIN players'
  /\ n \notin DOMAIN players \/ players'[n] # players[n]

Gone(n) == n \notin DOMAIN players /\ n \notin PolledNames

\* C19: for every name, either POST / writes it again and again without end, or
\* (the clock advancing and polls being served) from some time on it is in
\* neither the table nor any poll answer; and a name enters the table only by a
\* POST / that writes it.
C19_DisconnectedDisappears ==
  /\ \A n \in {"A", "B"} : []<><<IngestOf(n)>>_vars \/ <>[]Gone(n)
  /\ [][\A n \in {"A", "B"} :
          (n \notin DOMAIN players /\ n \in DOMAIN players') => IngestOf(n)]_vars

\* C19 witness: B was last written at least the threshold ago, A later; a poll
\* dropped B and returned A.
C19_Witness ==
  /\ resp.op = "GET /data"
  /\ "B" \in DOMAIN lastPut
  /\ clock - lastPut["B"].at >= StaleMs
  /\ Gone("B")
  /\ "A" \in PolledNames
  /\ lastPut["A"].at > lastPut["B"].at

C21_HealthSkipsStale ==
  [][Handles("GET /health") =>
       resp'.body.activePlayers
         <= Cardinality({ n \in DOMAIN players : clock - players[n].t <= StaleMs })]_vars

\* C22 (as claimed): the frame a POST / pushes while recording holds exactly the
\* records that call gave to players.set, in order.
C22_FrameHoldsPuts ==
  [][(/\ Handles("POST /")
      /\ isRecording
      /\ Len(currentReplayBuffer') = Len(currentReplayBuffer) + 1)
       => currentReplayBuffer'[Len(currentReplayBuffer')].players = PutsOf(resp'.req)]_vars

\* C23 (as claimed): the frame a POST / of the file-based server pushes carries
\* the timestamp of the table entry that call wrote.
C23_OneTimestamp ==
  [][(/\ Handles("POST /")
      /\ resp'.status = 200
      /\ ~IsNull(currentReplay')
      /\ currentReplay' # currentReplay)
       => FrameT(Frames(currentReplay'), Len(Frames(currentReplay')))
            = Get(players'[Get(resp'.req.value.obj, "name").str].obj, "t").num]_vars

\* C24: while a recording is active the buffer is the sequence of the frames of
\* the POST / calls accepted since its start, in call order; a stop that stores a
\* record stores exactly that sequence, after the records already stored.
C24_ReplayIsSession ==
  /\ [](isRecording => currentReplayBuffer = session)
  /\ [][(Handles("POST /record/stop") /\ savedReplays' # savedReplays) =>
          /\ savedReplays'[Len(savedReplays')].frames = session
          /\ SubSeq(savedReplays', 1, Len(savedReplays)) = savedReplays
          /\ session' = session]_vars

\* C24 witness: a session of two calls was sealed, then a session of one call;
\* the second record holds that one frame only.
C24_Witness ==
  /\ resp.op = "POST /record/stop"
  /\ resp.status = 200
  /\ Len(savedReplays) = 2
  /\ Len(savedReplays[1].frames) = 2
  /\ Len(session) = 1
  /\ savedReplays[2].frames = session

\* C25: a start is served (200) exactly when the recorder is Idle and leaves it
\* Recording, otherwise it is answered 400 "Already recording"; a stop is served
\* exactly when the recorder is Recording and leaves it Idle; nothing else moves
\* the recorder.
C25_OneActiveRecording ==
  [][/\ Handles("POST /record/start") =>
          /\ (resp'.status = 200) = ~isRecording
          /\ isRecording'
          /\ isRecording => resp' = Reply("POST /record/start", 400,
                                          [error |-> "Already recording"])
     /\ Handles("POST /record/stop") =>
          /\ (resp'.status = 200) = isRecording
          /\ ~isRecording'
     /\ isRecording' # isRecording =>
          Handles("POST /record/start") \/ Handles("POST /record/stop")]_vars

\* C25 witness: in a second session, a second start was refused.
C25_Witness ==
  /\ resp.op = "POST /record/start"
  /\ resp.status = 400
  /\ isRecording
  /\ Len(savedReplays) = 1
  /\ currentReplayBuffer = <<>>

\* C26: the table equals the table of the twin that never records, every POST /
\* is answered as the twin answers it, and every poll returns what the twin's
\* poll returns.
C26_TableIgnoresRecorder ==
  [][/\ players' = shadow'
     /\ Handles("POST /") =>
          LET twin == PostRootOutcome(resp'.req, shadow, <<>>, FALSE, clock) IN
          resp'.status = twin.status /\ resp'.body = twin.body
     /\ Handles("GET /data") => resp'.body.players = ActivePlayers(shadow, clock)]_vars

\* C26 witness: between a sealed session and within a second one, a poll
\* returned a non-empty table.
C26_Witness ==
  /\ resp.op = "GET /data"
  /\ resp.body.players # {}
  /\ isRecording
  /\ Len(currentReplayBuffer) >= 1
  /\ Len(savedReplays) = 1
  /\ players = shadow

\* C27 (as claimed): a POST / answered 500 leaves the table, the buffer and the
\* catalog as they were.
C27_FailureLeavesState ==
  [][(Handles("POST /") /\ resp'.status = 500) =>
       UNCHANGED <<players, currentReplayBuffer, savedReplays>>]_vars

\* C29: a poll leaves the recorder, the buffer and the catalog alone; start, stop,
\* list and get leave the table alone; list and get leave all of them alone; a
\* POST / leaves the catalog alone.
C29_FrameEffects ==
  [][/\ Handles("GET /data") =>
          UNCHANGED <<isRecording, currentReplayBuffer, savedReplays>>
     /\ (Handles("POST /record/start") \/ Handles("POST /record/stop")) =>
          UNCHANGED players
     /\ (Handles("GET /replays") \/ Handles("GET /replays/:id")) =>
          UNCHANGED <<players, isRecording, currentReplayBuffer, savedReplays>>
     /\ Handles("POST /") => UNCHANGED <<savedReplays, isRecording>>]_vars

\* C29 witness: while a second recording is active, a poll evicted the stale
\* entry of A; the catalog still holds the first replay.
C29_Witness ==
  /\ resp.op = "GET /data"
  /\ "A" \in DOMAIN lastPut
  /\ "A" \notin DOMAIN players
  /\ isRecording
  /\ Len(savedReplays) = 1

\* C28 (as claimed): when an updatePlayers call completes, every player the
\* visualizer holds is named in the list that call fetched.
C28_VanishedDropped ==
  [][inflight' = inflight - 1 =>
       vizPlayers' \subseteq { delivered'[i].name : i \in 1..Len(delivered') }]_vars

\* C30 (as claimed): once destroy() has returned the player map is empty and no
\* billboarding frame is requested.
C30_DestroyFinal ==
  destroyed => (vizPlayers = {} /\ ~frameId)

====
